---- MODULE Spec2Model ----
(***************************************************************************)
(* Pool building of SongGuesserServer.                                     *)
(*                                                                         *)
(* Three pool-building handlers exist in the sources:                      *)
(*   "rr"    POST /api/create-pool, round-robin   (src/unnamed/part_000)   *)
(*   "dedup" POST /create-pool, unique + shuffle  (src/index.js)           *)
(*   "flat"  POST /api/create-pool, Promise.all   (src/index.js)           *)
(* One request is followed from its arrival to its response; every await   *)
(* of a handler is one step of the model.  Display metadata of a track     *)
(* (name, artist string, album cover) is left out: no decision of the      *)
(* handlers reads it.  What is kept of it is whether the raw item carries  *)
(* the fields the mapping dereferences (artists, album).                   *)
(***************************************************************************)
EXTENDS Integers, Sequences, FiniteSets, TLC

\* ------------------------------------------------------------------ bounds
\* Raw items one request may receive from the catalog, all fetches together.
MaxFetched == 3

\* ------------------------------------------------------- program constants
MediumWeight == 7
LongWeight == 10

\* --------------------------------------------------------------- the data
Undefined == "undefined"

UserIdSet == {"7", "bob"}
TrackIds == {"T1", "T2"}

UriOf(id) ==
    CASE id = "T1" -> "spotify:track:T1"
      [] id = "T2" -> "spotify:track:T2"
      [] OTHER -> Undefined

\* Raw catalog items a fetch can return: the complete items, an item without
\* id and uri, an item without artists/album.
RawItems ==
    { [id |-> t, uri |-> UriOf(t), artists |-> TRUE] : t \in TrackIds }
    \cup { [id |-> Undefined, uri |-> Undefined, artists |-> TRUE],
           [id |-> "T2", uri |-> UriOf("T2"), artists |-> FALSE] }

SeqsUpTo(S, n) == UNION { [1..k -> S] : k \in 0..n }

ItemLists == SeqsUpTo(RawItems, MaxFetched)

RECURSIVE NoRepeat(_)
NoRepeat(s) ==
    IF Len(s) <= 1 THEN TRUE
    ELSE (\A k \in 2..Len(s) : s[k] # s[1]) /\ NoRepeat(Tail(s))

\* users.json as the handlers find it: one record per spotifyId.
UserRecord(id) == [spotifyId |-> id, accessToken |-> "tok0"]

Stores ==
    { [k \in 1..Len(s) |-> UserRecord(s[k])] :
        s \in { t \in SeqsUpTo(UserIdSet, Cardinality(UserIdSet)) : NoRepeat(t) } }

\* req.body: userIds missing, or an array of ids (an id given twice changes
\* nothing: the array is only read through includes).
ReqBodies ==
    { [present |-> FALSE, ids |-> <<>>] }
    \cup { [present |-> TRUE, ids |-> s] :
            s \in { t \in SeqsUpTo(UserIdSet, Cardinality(UserIdSet)) : NoRepeat(t) } }

NoResponse == [status |-> 0, kind |-> "none", error |-> "", pool |-> <<>>]
ErrorResponse(st, msg) == [status |-> st, kind |-> "error", error |-> msg, pool |-> <<>>]
PoolResponse(p) == [status |-> 200, kind |-> "pool", error |-> "", pool |-> p]

VARIABLES
    store,        \* contents of users.json
    variant,      \* handler serving the request: "none", "rr", "dedup", "flat"
    body,         \* req.body of the request
    pc,           \* position of the handler
    users,        \* users / selectedUsers of the handler
    idx,          \* position of the for-of loop over users
    mediumTracks, \* mediumTermTracks of the current loop turn
    userTracks,   \* userTracks of the round-robin handler, in insertion order
    allTracks,    \* allTracks of the unique+shuffle handler
    pending,      \* trackPromises not yet settled (Promise.all handler)
    results,      \* values of the fulfilled trackPromises
    response,     \* the response sent, NoResponse before
    fetches,      \* number of axios.get calls issued by the request
    fetchLog,     \* history: outcome of every settled fetch of the request
    contrib,      \* history: what each user handed to the pool build
    poolOwners,   \* history: user each slot of the round-robin pool came from
    silent,       \* the catalog will not answer the outstanding fetches
    rq,           \* the handler state of each of two concurrent requests
    cb,           \* the state of each login callback in progress
    loop,         \* the round-robin distribution loop, statement by statement
    wContribs,    \* weighted mode: the contributions given to the aggregator
    wTracks,      \* weighted mode: the aggregator's weighted tracks
    wPool,        \* weighted mode: the sequencer's multiset before the shuffle
    wPc           \* weighted mode: stage of the pipeline

poolVars == << variant, body, pc, users, idx, mediumTracks, userTracks,
               allTracks, pending, results, response, fetches, fetchLog,
               contrib, poolOwners >>

weightedVars == << wContribs, wTracks, wPool, wPc >>

\* What the pool-build handlers of one request never touch.
extVars == << silent, rq, cb, loop, weightedVars >>

vars == << store, poolVars, extVars >>

NoLoop == [in |-> <<>>, ut |-> <<>>, final |-> <<>>, keys |-> <<>>,
           empty |-> FALSE, k |-> 0, pc |-> "off"]

\* The parts of the state a specification does not exercise.
LiveOff == silent = FALSE
TwoOff == rq = <<>>
LoginOff == cb = <<>>
LoopOff == loop = NoLoop
WeightedOff == wContribs = <<>> /\ wTracks = <<>> /\ wPool = <<>> /\ wPc = "off"

\* ------------------------------------------------------ helpers of the code

\* Array.prototype.includes on the userIds array.
Includes(ids, x) == \E k \in 1..Len(ids) : ids[k] = x

\* Mutant of SelectUsers: the filter is forgotten, every stored user is taken.
SelectUsersUnfiltered(st, ids) == st

\* readUsers().filter(user => userIds.includes(user.spotifyId))
SelectUsers(st, ids) == SelectSeq(st, LAMBDA u : Includes(ids, u.spotifyId))

\* !userIds || !Array.isArray(userIds) || userIds.length === 0
NoUserIds(b) == ~b.present \/ Len(b.ids) = 0

\* The map callbacks read track.artists.map(...) and track.album.images[0]:
\* an item without these fields makes the callback throw a TypeError, which
\* ends the whole map.
MapThrows(items) == \E k \in 1..Len(items) : ~items[k].artists

\* items.map(track => ({id, ..., uri, weight})) of the round-robin handler.
MapWeighted(items, w) ==
    [k \in 1..Len(items) |-> [id |-> items[k].id, uri |-> items[k].uri, weight |-> w]]

\* items.map(track => ({id, ..., uri})) of the unique+shuffle handler.
MapTracks(items) ==
    [k \in 1..Len(items) |-> [id |-> items[k].id, uri |-> items[k].uri]]

\* items.map(track => ({uri, ...})) of the Promise.all handler.
MapUris(items) == [k \in 1..Len(items) |-> [uri |-> items[k].uri]]

\* self.findIndex(t => t.id === track.id)
FindIndex(self, id) == CHOOSE k \in 1..Len(self) :
    /\ self[k].id = id
    /\ \A j \in 1..(k - 1) : self[j].id # id

\* The indices filter((track, index, self) => findIndex(...) === index) keeps.
RECURSIVE KeepFrom(_, _)
KeepFrom(self, k) ==
    IF k > Len(self) THEN <<>>
    ELSE IF FindIndex(self, self[k].id) = k
         THEN <<self[k]>> \o KeepFrom(self, k + 1)
         ELSE KeepFrom(self, k + 1)

\* Mutant of UniqueTracks: the filter keeps every element.
UniqueTracksKeepAll(self) == self

UniqueTracks(self) == KeepFrom(self, 1)

\* Mutant of CombinedTracks: the two lists are spread in the other order.
CombinedTracksLongFirst(medium, long) == UniqueTracks(long \o medium)

\* [...mediumTermTracks, ...longTermTracks].filter(first occurrence of the id)
CombinedTracks(medium, long) == UniqueTracks(medium \o long)

\* ---- userTracks: a JS object, kept as its entries in insertion order ----
HasKey(ut, key) == \E k \in 1..Len(ut) : ut[k].key = key

Lookup(ut, key) == ut[CHOOSE k \in 1..Len(ut) : ut[k].key = key].tracks

\* userTracks[key] = tracks: a new key is appended, an old one keeps its place.
Assign(ut, key, tracks) ==
    IF HasKey(ut, key)
    THEN [k \in 1..Len(ut) |-> IF ut[k].key = key
                                THEN [key |-> key, tracks |-> tracks]
                                ELSE ut[k]]
    ELSE Append(ut, [key |-> key, tracks |-> tracks])

\* A property key that is a canonical array index, and its number (-1: none).
ArrayIndex(key) ==
    CASE key = "7" -> 7
      [] key = "12" -> 12
      [] OTHER -> -1

RECURSIVE InsertSorted(_, _)
InsertSorted(keys, key) ==
    IF keys = <<>> THEN <<key>>
    ELSE IF ArrayIndex(key) < ArrayIndex(Head(keys))
         THEN <<key>> \o keys
         ELSE <<Head(keys)>> \o InsertSorted(Tail(keys), key)

RECURSIVE SortKeys(_)
SortKeys(keys) ==
    IF keys = <<>> THEN <<>> ELSE InsertSorted(SortKeys(Tail(keys)), Head(keys))

\* Object.keys(userTracks): the array-index keys in ascending numeric order,
\* then the other string keys in insertion order (OrdinaryOwnPropertyKeys).
ObjectKeys(ut) ==
    LET keys == [k \in 1..Len(ut) |-> ut[k].key]
    IN  SortKeys(SelectSeq(keys, LAMBDA x : ArrayIndex(x) >= 0))
        \o SelectSeq(keys, LAMBDA x : ArrayIndex(x) < 0)

\* Mutant of Shift: pop() in place of shift().
ShiftAsPop(tracks) ==
    [item |-> tracks[Len(tracks)], rest |-> SubSeq(tracks, 1, Len(tracks) - 1)]

\* tracks.shift(): the element removed and the array left.
Shift(tracks) == [item |-> Head(tracks), rest |-> Tail(tracks)]

\* One run of the for-of loop over Object.keys(userTracks).
RECURSIVE ForKeys(_, _, _)
ForKeys(keys, k, st) ==
    IF k > Len(keys) THEN st
    ELSE LET tracks == Lookup(st.ut, keys[k])
         IN  IF Len(tracks) > 0
             THEN ForKeys(keys, k + 1,
                    [ut |-> Assign(st.ut, keys[k], Shift(tracks).rest),
                     final |-> Append(st.final, Shift(tracks).item),
                     owners |-> Append(st.owners, keys[k]),
                     empty |-> FALSE])
             ELSE ForKeys(keys, k + 1, st)

\* while (!empty) { empty = true; for (...) {...} }
RECURSIVE WhileNotEmpty(_)
WhileNotEmpty(st) ==
    IF st.empty THEN st
    ELSE WhileNotEmpty(ForKeys(ObjectKeys(st.ut), 1, [st EXCEPT !.empty = TRUE]))

RoundRobin(ut) ==
    WhileNotEmpty([ut |-> ut, final |-> <<>>, owners |-> <<>>, empty |-> FALSE])

\* (await Promise.all(trackPromises)).flat()
RECURSIVE Flat(_, _)
Flat(res, k) == IF k > Len(res) THEN <<>> ELSE res[k] \o Flat(res, k + 1)

\* uniqueTracks.sort(() => 0.5 - Math.random()): some rearrangement.
Rearrangements(s) ==
    { [k \in 1..Len(s) |-> s[f[k]]] :
        f \in { g \in [1..Len(s) -> 1..Len(s)] :
                  \A i, j \in 1..Len(s) : g[i] = g[j] => i = j } }

\* Raw items the request has received so far.
RECURSIVE Received(_)
Received(log) ==
    IF log = <<>> THEN 0 ELSE Len(Head(log).items) + Received(Tail(log))

CanFetch(items) == Received(fetchLog) + Len(items) <= MaxFetched

Logged(u, cat, ok, items) ==
    Append(fetchLog, [user |-> u, cat |-> cat, ok |-> ok, items |-> items])

\* ------------------------------------------------------------------- Init
Init ==
    /\ store \in Stores
    /\ variant = "none"
    /\ body = [present |-> FALSE, ids |-> <<>>]
    /\ pc = "idle"
    /\ users = <<>>
    /\ idx = 0
    /\ mediumTracks = <<>>
    /\ userTracks = <<>>
    /\ allTracks = <<>>
    /\ pending = {}
    /\ results = <<>>
    /\ response = NoResponse
    /\ fetches = 0
    /\ fetchLog = <<>>
    /\ contrib = <<>>
    /\ poolOwners = <<>>
    /\ LiveOff /\ TwoOff /\ LoginOff /\ LoopOff /\ WeightedOff

\* return res.status(st).json({ error: msg }) before any fetch.
Reject(st, msg) ==
    /\ response' = ErrorResponse(st, msg)
    /\ pc' = "done"
    /\ users' = <<>>
    /\ UNCHANGED << idx, fetches >>

\* ----------------------------- POST /api/create-pool, round-robin handler

\* The handler up to its first await.
RRStart(b) ==
    /\ pc = "idle"
    /\ variant' = "rr"
    /\ body' = b
    /\ IF NoUserIds(b)
       THEN Reject(400, "No valid users found")
       ELSE IF Len(SelectUsers(store, b.ids)) = 0
            THEN Reject(404, "No matching users found")
            ELSE /\ users' = SelectUsers(store, b.ids)
                 /\ idx' = 1
                 /\ pc' = "medium"
                 /\ fetches' = fetches + 1
                 /\ UNCHANGED response
    /\ UNCHANGED << store, mediumTracks, userTracks, allTracks, pending,
                    results, fetchLog, contrib, poolOwners >>
    /\ UNCHANGED extVars

\* The rest of the handler once the loop turn of users[idx] has ended with
\* userTracks = ut: the next turn's first fetch, or the round-robin
\* distribution and the response.
RRContinue(ut) ==
    IF idx < Len(users)
    THEN /\ idx' = idx + 1
         /\ pc' = "medium"
         /\ fetches' = fetches + 1
         /\ userTracks' = ut
         /\ UNCHANGED << response, contrib, poolOwners >>
    ELSE /\ userTracks' = RoundRobin(ut).ut
         /\ contrib' = ut
         /\ poolOwners' = RoundRobin(ut).owners
         /\ response' = PoolResponse(RoundRobin(ut).final)
         /\ pc' = "done"
         /\ UNCHANGED << idx, fetches >>

\* The medium_term request is answered with items.
RRMediumOk(items) ==
    /\ variant = "rr" /\ pc = "medium"
    /\ CanFetch(items)
    /\ fetchLog' = Logged(users[idx].spotifyId, "medium", TRUE, items)
    /\ IF MapThrows(items)
       THEN /\ RRContinue(userTracks)
            /\ UNCHANGED mediumTracks
       ELSE /\ mediumTracks' = MapWeighted(items, MediumWeight)
            /\ pc' = "long"
            /\ fetches' = fetches + 1
            /\ UNCHANGED << idx, userTracks, response, contrib, poolOwners >>
    /\ UNCHANGED << store, variant, body, users, allTracks, pending, results >>
    /\ UNCHANGED extVars

\* The medium_term request fails: the catch of the loop turn.
RRMediumFail ==
    /\ variant = "rr" /\ pc = "medium"
    /\ fetchLog' = Logged(users[idx].spotifyId, "medium", FALSE, <<>>)
    /\ RRContinue(userTracks)
    /\ UNCHANGED << store, variant, body, users, mediumTracks, allTracks,
                    pending, results >>
    /\ UNCHANGED extVars

\* The long_term request is answered with items.
RRLongOk(items) ==
    /\ variant = "rr" /\ pc = "long"
    /\ CanFetch(items)
    /\ fetchLog' = Logged(users[idx].spotifyId, "long", TRUE, items)
    /\ IF MapThrows(items)
       THEN RRContinue(userTracks)
       ELSE RRContinue(Assign(userTracks, users[idx].spotifyId,
                CombinedTracks(mediumTracks, MapWeighted(items, LongWeight))))
    /\ UNCHANGED << store, variant, body, users, mediumTracks, allTracks,
                    pending, results >>
    /\ UNCHANGED extVars

\* The long_term request fails: the catch of the loop turn.
RRLongFail ==
    /\ variant = "rr" /\ pc = "long"
    /\ fetchLog' = Logged(users[idx].spotifyId, "long", FALSE, <<>>)
    /\ RRContinue(userTracks)
    /\ UNCHANGED << store, variant, body, users, mediumTracks, allTracks,
                    pending, results >>
    /\ UNCHANGED extVars

\* ------------------------------ POST /create-pool, unique+shuffle handler

DedupStart(b) ==
    /\ pc = "idle"
    /\ variant' = "dedup"
    /\ body' = b
    /\ IF NoUserIds(b)
       THEN Reject(400, "No valid users found")
       ELSE IF Len(SelectUsers(store, b.ids)) = 0
            THEN Reject(404, "No matching users found")
            ELSE /\ users' = SelectUsers(store, b.ids)
                 /\ idx' = 1
                 /\ pc' = "top"
                 /\ fetches' = fetches + 1
                 /\ UNCHANGED response
    /\ UNCHANGED << store, mediumTracks, userTracks, allTracks, pending,
                    results, fetchLog, contrib, poolOwners >>
    /\ UNCHANGED extVars

\* The rest of the handler once the loop turn of users[idx] has ended with
\* allTracks = all: the next fetch, or dedup, shuffle and the response.
DedupContinue(all) ==
    /\ allTracks' = all
    /\ IF idx < Len(users)
       THEN /\ idx' = idx + 1
            /\ fetches' = fetches + 1
            /\ UNCHANGED << pc, response >>
       ELSE /\ \E shuffledTracks \in Rearrangements(UniqueTracks(all)) :
                 response' = PoolResponse(shuffledTracks)
            /\ pc' = "done"
            /\ UNCHANGED << idx, fetches >>

DedupFetchOk(items) ==
    /\ variant = "dedup" /\ pc = "top"
    /\ CanFetch(items)
    /\ fetchLog' = Logged(users[idx].spotifyId, "top", TRUE, items)
    /\ IF MapThrows(items)
       THEN /\ DedupContinue(allTracks)
            /\ UNCHANGED contrib
       ELSE /\ DedupContinue(allTracks \o MapTracks(items))
            /\ contrib' = Append(contrib, [key |-> users[idx].spotifyId,
                                           tracks |-> MapTracks(items)])
    /\ UNCHANGED << store, variant, body, users, mediumTracks, userTracks,
                    pending, results, poolOwners >>
    /\ UNCHANGED extVars

DedupFetchFail ==
    /\ variant = "dedup" /\ pc = "top"
    /\ fetchLog' = Logged(users[idx].spotifyId, "top", FALSE, <<>>)
    /\ DedupContinue(allTracks)
    /\ UNCHANGED << store, variant, body, users, mediumTracks, userTracks,
                    pending, results, contrib, poolOwners >>
    /\ UNCHANGED extVars

\* ------------------------------- POST /api/create-pool, Promise.all handler

\* The handler up to await Promise.all: every user's request is issued by the
\* map; Promise.all of no promise is fulfilled at once.
FlatStart(b) ==
    /\ pc = "idle"
    /\ variant' = "flat"
    /\ body' = b
    /\ IF NoUserIds(b)
       THEN /\ Reject(400, "No users selected")
            /\ UNCHANGED << pending, results >>
       ELSE /\ users' = SelectUsers(store, b.ids)
            /\ pending' = 1..Len(SelectUsers(store, b.ids))
            /\ results' = [k \in 1..Len(SelectUsers(store, b.ids)) |-> <<>>]
            /\ fetches' = fetches + Len(SelectUsers(store, b.ids))
            /\ IF Len(SelectUsers(store, b.ids)) = 0
               THEN /\ response' = PoolResponse(<<>>)
                    /\ pc' = "done"
               ELSE /\ pc' = "await"
                    /\ UNCHANGED response
            /\ UNCHANGED idx
    /\ UNCHANGED << store, mediumTracks, userTracks, allTracks, fetchLog,
                    contrib, poolOwners >>
    /\ UNCHANGED extVars

\* trackPromises[i] is fulfilled, or rejected by the map; Promise.all settles
\* with the last fulfilment or the first rejection.
FlatFetchOk(i, items) ==
    /\ variant = "flat" /\ i \in pending
    /\ CanFetch(items)
    /\ fetchLog' = Logged(users[i].spotifyId, "top", TRUE, items)
    /\ pending' = pending \ {i}
    /\ IF MapThrows(items)
       THEN /\ UNCHANGED << results, contrib >>
            /\ IF pc = "await"
               THEN /\ response' = ErrorResponse(500, "Failed to create pool")
                    /\ pc' = "done"
               ELSE UNCHANGED << response, pc >>
       ELSE /\ results' = [results EXCEPT ![i] = MapUris(items)]
            /\ contrib' = Append(contrib, [key |-> users[i].spotifyId,
                                           tracks |-> MapUris(items)])
            /\ IF pc = "await" /\ pending \ {i} = {}
               THEN /\ response' = PoolResponse(Flat(results', 1))
                    /\ pc' = "done"
               ELSE UNCHANGED << response, pc >>
    /\ UNCHANGED << store, variant, body, users, idx, mediumTracks,
                    userTracks, allTracks, fetches, poolOwners >>
    /\ UNCHANGED extVars

\* trackPromises[i] is rejected by its request.
FlatFetchFail(i) ==
    /\ variant = "flat" /\ i \in pending
    /\ fetchLog' = Logged(users[i].spotifyId, "top", FALSE, <<>>)
    /\ pending' = pending \ {i}
    /\ IF pc = "await"
       THEN /\ response' = ErrorResponse(500, "Failed to create pool")
            /\ pc' = "done"
       ELSE UNCHANGED << response, pc >>
    /\ UNCHANGED << store, variant, body, users, idx, mediumTracks,
                    userTracks, allTracks, results, fetches, contrib,
                    poolOwners >>
    /\ UNCHANGED extVars

\* Mutant of NewRequest: allTracks and userTracks live outside the handler
\* and are not cleared between requests.
NewRequestKeepsTracks ==
    /\ pc = "done" /\ pending = {}
    /\ variant' = "none"
    /\ body' = [present |-> FALSE, ids |-> <<>>]
    /\ pc' = "idle"
    /\ users' = <<>>
    /\ idx' = 0
    /\ mediumTracks' = <<>>
    /\ pending' = {}
    /\ results' = <<>>
    /\ response' = NoResponse
    /\ fetches' = 0
    /\ fetchLog' = <<>>
    /\ contrib' = <<>>
    /\ poolOwners' = <<>>
    /\ UNCHANGED << store, userTracks, allTracks >>
    /\ UNCHANGED extVars

\* The next request arrives: nothing of the last one is kept.
NewRequest ==
    /\ pc = "done" /\ pending = {}
    /\ variant' = "none"
    /\ body' = [present |-> FALSE, ids |-> <<>>]
    /\ pc' = "idle"
    /\ users' = <<>>
    /\ idx' = 0
    /\ mediumTracks' = <<>>
    /\ userTracks' = <<>>
    /\ allTracks' = <<>>
    /\ pending' = {}
    /\ results' = <<>>
    /\ response' = NoResponse
    /\ fetches' = 0
    /\ fetchLog' = <<>>
    /\ contrib' = <<>>
    /\ poolOwners' = <<>>
    /\ UNCHANGED store
    /\ UNCHANGED extVars

Next ==
    \/ \E b \in ReqBodies : RRStart(b)
    \/ \E items \in ItemLists : RRMediumOk(items)
    \/ RRMediumFail
    \/ \E items \in ItemLists : RRLongOk(items)
    \/ RRLongFail
    \/ \E b \in ReqBodies : DedupStart(b)
    \/ \E items \in ItemLists : DedupFetchOk(items)
    \/ DedupFetchFail
    \/ \E b \in ReqBodies : FlatStart(b)
    \/ \E i \in pending, items \in ItemLists : FlatFetchOk(i, items)
    \/ \E i \in pending : FlatFetchFail(i)
    \/ NewRequest

Spec == Init /\ [][Next]_vars

\* ============================================================== properties

Responded == pc = "done"
PoolSent == pc = "done" /\ response.kind = "pool"

UserAt(k) == users[k].spotifyId

FetchOk(u, cat) ==
    \E k \in 1..Len(fetchLog) :
        fetchLog[k].user = u /\ fetchLog[k].cat = cat /\ fetchLog[k].ok

FetchFailed(u) ==
    \E k \in 1..Len(fetchLog) : fetchLog[k].user = u /\ ~fetchLog[k].ok

\* The items the fetch of category cat gave user u, none when it failed or
\* was never issued.
ItemsOf(u, cat) ==
    IF FetchOk(u, cat)
    THEN fetchLog[CHOOSE k \in 1..Len(fetchLog) :
            fetchLog[k].user = u /\ fetchLog[k].cat = cat /\ fetchLog[k].ok].items
    ELSE <<>>

WellFormed(item) == item.id # Undefined /\ item.uri # Undefined /\ item.artists

AllWellFormed(items) == \A k \in 1..Len(items) : WellFormed(items[k])

\* What user u handed to the pool build, nothing when u has no entry.
ContribOf(u) == IF HasKey(contrib, u) THEN Lookup(contrib, u) ELSE <<>>

IdsOf(s) == { s[k].id : k \in 1..Len(s) }
IdSeq(s) == [k \in 1..Len(s) |-> s[k].id]

RECURSIVE SumLen(_)
SumLen(ut) == IF ut = <<>> THEN 0 ELSE Len(Head(ut).tracks) + SumLen(Tail(ut))

\* The slots of the round-robin pool that came from user u, in pool order.
SlotsOf(u) ==
    LET at == SelectSeq([j \in 1..Len(poolOwners) |-> j],
                        LAMBDA j : poolOwners[j] = u)
    IN  [i \in 1..Len(at) |-> response.pool[at[i]]]

\* C1: in round-robin mode the pool is as long as all contributions together,
\* every contributed occurrence is emitted exactly once (also an id two users
\* share), and each user's tracks keep their relative order.
C1_RoundRobinEmitsEveryTrackInOrder ==
    (variant = "rr" /\ PoolSent) =>
        /\ Len(response.pool) = SumLen(contrib)
        /\ Len(poolOwners) = Len(response.pool)
        /\ \A k \in 1..Len(contrib) : SlotsOf(contrib[k].key) = contrib[k].tracks
        /\ \A j \in 1..Len(poolOwners) : HasKey(contrib, poolOwners[j])

C1_Witness ==
    /\ variant = "rr" /\ PoolSent
    /\ Len(contrib) = 2
    /\ \E i, j \in 1..Len(contrib) :
          /\ i # j
          /\ Len(contrib[i].tracks) = 2
          /\ contrib[j].tracks # <<>>
          /\ IdsOf(contrib[i].tracks) \cap IdsOf(contrib[j].tracks) # {}

\* The owners of the pool slots when round k emits the k-th track of every
\* user with at least k tracks, users taken in the order of the users array.
RECURSIVE RoundsFrom(_)
RoundsFrom(k) ==
    IF \A i \in 1..Len(users) : Len(ContribOf(UserAt(i))) < k
    THEN <<>>
    ELSE SelectSeq([i \in 1..Len(users) |-> UserAt(i)],
                   LAMBDA u : Len(ContribOf(u)) >= k) \o RoundsFrom(k + 1)

\* C2: in round-robin mode round k emits the k-th track of every user that
\* has at least k tracks, visiting the users in the order in which they were
\* resolved from the user store.
C2_RoundsVisitUsersInStoreOrder ==
    (variant = "rr" /\ PoolSent) => poolOwners = RoundsFrom(1)

\* C3: when one category fetch of a user fails and another succeeds, the
\* user's contribution is the deduplicated tracks of the categories that
\* succeeded; it is empty only when all the user's fetches fail.
C3_SucceededCategoriesAreKept ==
    (variant = "rr" /\ PoolSent) =>
        \A k \in 1..Len(users) :
            (AllWellFormed(ItemsOf(UserAt(k), "medium"))
               /\ AllWellFormed(ItemsOf(UserAt(k), "long")))
            => ContribOf(UserAt(k)) =
                  CombinedTracks(
                      MapWeighted(ItemsOf(UserAt(k), "medium"), MediumWeight),
                      MapWeighted(ItemsOf(UserAt(k), "long"), LongWeight))

\* Every fetch the handler issues for user u was answered with well-formed
\* items.
FullySucceeded(u) ==
    /\ ~FetchFailed(u)
    /\ IF variant = "rr"
       THEN FetchOk(u, "medium") /\ FetchOk(u, "long")
       ELSE FetchOk(u, "top")
    /\ \A cat \in {"medium", "long", "top"} : AllWellFormed(ItemsOf(u, cat))

UrisOf(u) ==
    UNION { { ItemsOf(u, cat)[k].uri : k \in 1..Len(ItemsOf(u, cat)) } :
                cat \in {"medium", "long", "top"} }

\* C4: a failing fetch of one user never turns the pool build into an error
\* and never removes another user's contribution: when another user's fetch
\* succeeds, the response is a pool that holds that user's tracks.
C4_FailureOfOneUserSparesTheOthers ==
    Responded =>
        \A a, b \in 1..Len(users) :
            (a # b /\ FetchFailed(UserAt(a)) /\ FullySucceeded(UserAt(b)))
            => /\ response.kind = "pool"
               /\ \A uri \in UrisOf(UserAt(b)) :
                     \E j \in 1..Len(response.pool) : response.pool[j].uri = uri

\* C5: a request none of whose users yields a usable contribution (every
\* fetch fails or returns no track) ends in an error response, never in a
\* successful response with an empty pool.
C5_NoContributionIsAnError ==
    (Responded /\ pending = {} /\ users # <<>>
        /\ \A k \in 1..Len(fetchLog) :
              ~fetchLog[k].ok \/ fetchLog[k].items = <<>>)
    => response.kind = "error"

Resolves(id) == \E k \in 1..Len(store) : store[k].spotifyId = id

\* C6: a request without userIds or with an empty list fails with the
\* NoUsersRequested error (400), one whose ids resolve to no stored user fails
\* with the NoMatchingUsers error (404); neither issues a fetch or returns a
\* pool.
C6_ValidationErrors ==
    Responded =>
        /\ NoUserIds(body) =>
              response.kind = "error" /\ response.status = 400 /\ fetches = 0
        /\ (~NoUserIds(body) /\ \A k \in 1..Len(body.ids) : ~Resolves(body.ids[k])) =>
              response.kind = "error" /\ response.status = 404 /\ fetches = 0

WellFormedOnly(items) == SelectSeq(items, WellFormed)

\* C7: a malformed raw item is skipped alone: the other records of the same
\* fetch stay in the user's contribution, which is never discarded for one
\* bad record.
C7_OnlyTheMalformedRecordIsSkipped ==
    (variant \in {"rr", "dedup"} /\ PoolSent) =>
        \A k \in 1..Len(users) :
            (~FetchFailed(UserAt(k))) =>
                IdSeq(ContribOf(UserAt(k))) =
                    IF variant = "rr"
                    THEN IdSeq(CombinedTracks(
                            MapWeighted(WellFormedOnly(ItemsOf(UserAt(k), "medium")),
                                        MediumWeight),
                            MapWeighted(WellFormedOnly(ItemsOf(UserAt(k), "long")),
                                        LongWeight)))
                    ELSE IdSeq(MapTracks(WellFormedOnly(ItemsOf(UserAt(k), "top"))))

\* C8: in dedup mode (unique + shuffle) the pool holds each track id at most
\* once, also when several users contribute the same id.
C8_DedupPoolHasEachIdOnce ==
    (variant = "dedup" /\ PoolSent) =>
        \A i, j \in 1..Len(response.pool) :
            response.pool[i].id = response.pool[j].id => i = j

C8_Witness ==
    /\ variant = "dedup" /\ PoolSent
    /\ Len(contrib) = 2
    /\ "T1" \in IdsOf(contrib[1].tracks) \cap IdsOf(contrib[2].tracks)
    /\ "T1" \in IdsOf(response.pool)
    /\ Len(response.pool) = 2

\* Some successful fetch of this request, made for a user the request names,
\* returned an item that the pool slot t renders.
Fetched(t) ==
    \E k \in 1..Len(fetchLog) :
        /\ fetchLog[k].ok
        /\ Includes(body.ids, fetchLog[k].user)
        /\ \E i \in 1..Len(fetchLog[k].items) :
              IF variant = "flat"
              THEN fetchLog[k].items[i].uri = t.uri
              ELSE fetchLog[k].items[i].id = t.id

\* C9: in every mode each track of the returned pool was fetched, in the same
\* request, for a user the request selected: no track is invented and none
\* comes from a user that was not requested.
C9_PoolTracksWereFetchedForSelectedUsers ==
    PoolSent => \A j \in 1..Len(response.pool) : Fetched(response.pool[j])

C9_Witness ==
    /\ PoolSent
    /\ response.pool # <<>>
    /\ \E k \in 1..Len(store) : ~Includes(body.ids, store[k].spotifyId)

\* Position of the first item with this id in the user's fetched items, the
\* medium_term items before the long_term items.
FirstAt(u, id) ==
    LET all == ItemsOf(u, "medium") \o ItemsOf(u, "long")
    IN  CHOOSE k \in 1..Len(all) :
            all[k].id = id /\ \A j \in 1..(k - 1) : all[j].id # id

\* C10: within one user's contribution each track id appears once, the
\* records stand in the order of their first occurrence (first category
\* first), and a record keeps the weight of the category of its first
\* occurrence.
C10_FirstOccurrenceWinsWithinUser ==
    (variant = "rr" /\ PoolSent) =>
        \A c \in 1..Len(contrib) :
            LET u == contrib[c].key
                tracks == contrib[c].tracks
            IN  /\ \A i, j \in 1..Len(tracks) : tracks[i].id = tracks[j].id => i = j
                /\ IdsOf(tracks) = IdsOf(ItemsOf(u, "medium")) \cup IdsOf(ItemsOf(u, "long"))
                /\ \A i, j \in 1..Len(tracks) :
                      i < j => FirstAt(u, tracks[i].id) < FirstAt(u, tracks[j].id)
                /\ \A i \in 1..Len(tracks) :
                      tracks[i].weight =
                          IF tracks[i].id \in IdsOf(ItemsOf(u, "medium"))
                          THEN MediumWeight ELSE LongWeight

C10_Witness ==
    /\ variant = "rr" /\ PoolSent
    /\ \E c \in 1..Len(contrib) :
          /\ "T1" \in IdsOf(ItemsOf(contrib[c].key, "medium"))
          /\ "T1" \in IdsOf(ItemsOf(contrib[c].key, "long"))
          /\ \E i \in 1..Len(contrib[c].tracks) :
                contrib[c].tracks[i].id = "T1"
                  /\ contrib[c].tracks[i].weight = MediumWeight


\* ------------------------------------------------- C13: no state is kept

\* A fetch of user u, category cat, was answered and its items were mapped.
Mapped(u, cat) == FetchOk(u, cat) /\ ~MapThrows(ItemsOf(u, cat))

\* userTracks as the answers logged for the users us[k..] build it on ut.
RECURSIVE UserTracksFrom(_, _, _)
UserTracksFrom(us, k, ut) ==
    IF k > Len(us) THEN ut
    ELSE UserTracksFrom(us, k + 1,
            IF Mapped(us[k].spotifyId, "medium") /\ Mapped(us[k].spotifyId, "long")
            THEN Assign(ut, us[k].spotifyId,
                    CombinedTracks(
                        MapWeighted(ItemsOf(us[k].spotifyId, "medium"), MediumWeight),
                        MapWeighted(ItemsOf(us[k].spotifyId, "long"), LongWeight)))
            ELSE ut)

\* allTracks as the answers logged for the users us[k..] build it.
RECURSIVE AllTracksFrom(_, _)
AllTracksFrom(us, k) ==
    IF k > Len(us) THEN <<>>
    ELSE (IF Mapped(us[k].spotifyId, "top")
          THEN MapTracks(ItemsOf(us[k].spotifyId, "top")) ELSE <<>>)
         \o AllTracksFrom(us, k + 1)

RECURSIVE UrisFrom(_, _)
UrisFrom(us, k) ==
    IF k > Len(us) THEN <<>>
    ELSE MapUris(ItemsOf(us[k].spotifyId, "top")) \o UrisFrom(us, k + 1)

\* The responses a request may get that runs alone on the store st with the
\* body b and is given the answers of the fetch log.
OwnResponses(v, st, b) ==
    LET us == SelectUsers(st, b.ids)
    IN  CASE v = "rr" ->
                IF NoUserIds(b) THEN { ErrorResponse(400, "No valid users found") }
                ELSE IF Len(us) = 0 THEN { ErrorResponse(404, "No matching users found") }
                ELSE { PoolResponse(RoundRobin(UserTracksFrom(us, 1, <<>>)).final) }
          [] v = "dedup" ->
                IF NoUserIds(b) THEN { ErrorResponse(400, "No valid users found") }
                ELSE IF Len(us) = 0 THEN { ErrorResponse(404, "No matching users found") }
                ELSE { PoolResponse(t) :
                         t \in Rearrangements(UniqueTracks(AllTracksFrom(us, 1))) }
          [] v = "flat" ->
                IF NoUserIds(b) THEN { ErrorResponse(400, "No users selected") }
                ELSE IF \E k \in 1..Len(us) :
                           FetchFailed(us[k].spotifyId)
                             \/ MapThrows(ItemsOf(us[k].spotifyId, "top"))
                     THEN { ErrorResponse(500, "Failed to create pool") }
                     ELSE { PoolResponse(UrisFrom(us, 1)) }
          [] OTHER -> {}

\* Between two requests every local of the handlers has its initial value.
NothingKept ==
    /\ variant = "none" /\ users = <<>> /\ idx = 0
    /\ mediumTracks = <<>> /\ userTracks = <<>> /\ allTracks = <<>>
    /\ pending = {} /\ results = <<>> /\ response = NoResponse
    /\ fetches = 0 /\ fetchLog = <<>>

\* C13: a pool-build request, successful or not, leaves the user store as it
\* was and keeps nothing after its response: the response of every request,
\* the first or a later one, is the response of a request that runs alone
\* on the same store with the same userIds and the same fetch answers.
C13_RequestsAreStateless ==
    /\ [][store' = store]_vars
    /\ [](pc = "idle" => NothingKept)
    /\ [](Responded => response \in OwnResponses(variant, store, body))

C13_Witness ==
    /\ PoolSent
    /\ variant = "dedup"
    /\ Len(response.pool) = 2
    /\ Len(users) = 2
    /\ FetchFailed(UserAt(1))

\* -------------------------------------------- C15: response after fetches

\* C15: the response of a pool build is sent only after every fetch issued
\* for the request has completed, by success or by failure.
C15_ResponseAfterEveryFetch ==
    Responded => (pending = {} /\ Len(fetchLog) = fetches)


\* ------------------------------------- C16: a fetch that is never answered

\* An axios.get of the request has been issued and is not settled.
FetchOutstanding ==
    \/ variant \in {"rr", "dedup"} /\ pc \in {"medium", "long", "top"}
    \/ pending # {}

\* The catalog stops answering: the promises of the outstanding requests stay
\* pending.  The axios.get calls pass no timeout and axios has none by
\* default, so nothing in the server settles them.
FetchGoesSilent ==
    /\ ~silent
    /\ FetchOutstanding
    /\ silent' = TRUE
    /\ UNCHANGED << store, poolVars, rq, cb, loop, weightedVars >>

\* The two pool-build handlers of src/index.js.
IndexNext ==
    \/ \E b \in ReqBodies : DedupStart(b)
    \/ \E items \in ItemLists : DedupFetchOk(items)
    \/ DedupFetchFail
    \/ \E b \in ReqBodies : FlatStart(b)
    \/ \E i \in pending, items \in ItemLists : FlatFetchOk(i, items)
    \/ \E i \in pending : FlatFetchFail(i)
    \/ NewRequest

\* A step of the handlers: it needs the answer it waits for.
Answered == ~silent /\ IndexNext

LiveNext == Answered \/ FetchGoesSilent

\* The server of src/index.js with a catalog that may fall silent.  A catalog
\* that has not fallen silent answers in the end, and the handler then runs;
\* nothing is promised about a silent one.
SpecLive == Init /\ [][LiveNext]_vars /\ WF_vars(Answered)

\* C16: every pool-build request is eventually responded to, also when a
\* fetch fails or never answers: a fetch that errors is caught and a fetch
\* that never answers is cut off by a per-fetch timeout.
C16_EveryRequestIsAnswered ==
    (variant # "none") ~> Responded


\* ======================================================= GET /callback

\* No pool-build request is in progress.
PoolOff ==
    /\ variant = "none"
    /\ body = [present |-> FALSE, ids |-> <<>>]
    /\ pc = "idle"
    /\ users = <<>> /\ idx = 0
    /\ mediumTracks = <<>> /\ userTracks = <<>> /\ allTracks = <<>>
    /\ pending = {} /\ results = <<>>
    /\ response = NoResponse
    /\ fetches = 0 /\ fetchLog = <<>>
    /\ contrib = <<>> /\ poolOwners = <<>>

\* Login callbacks that may be in progress at once.
Callbacks == {"c1", "c2"}

\* access_token values of the token endpoint (the refresh_token comes and is
\* stored with it).
Tokens == {"tokA", "tokB"}

IdleCallback ==
    [pc |-> "idle", token |-> "", id |-> "", result |-> "none", outcome |-> "none"]

\* users.find(user => user.spotifyId === id): the index of the first match,
\* 0 for undefined.
FindUser(st, id) ==
    IF \E k \in 1..Len(st) : st[k].spotifyId = id
    THEN CHOOSE k \in 1..Len(st) :
            st[k].spotifyId = id /\ \A j \in 1..(k - 1) : st[j].spotifyId # id
    ELSE 0

\* Mutant of SaveUser: the record is pushed without looking for the id.
SaveUserAlwaysPush(st, id, tok) ==
    Append(st, [spotifyId |-> id, accessToken |-> tok])

\* The users written by fs.writeFileSync: a new record is pushed, a found
\* one gets the new tokens.
SaveUser(st, id, tok) ==
    IF FindUser(st, id) = 0
    THEN Append(st, [spotifyId |-> id, accessToken |-> tok])
    ELSE [st EXCEPT ![FindUser(st, id)].accessToken = tok]

\* Mutant of CatchResponse: the catch block redirects to the frontend.
CatchResponseRedirects == "redirect"

\* res.status(500).send("Error exchanging code for tokens...")
CatchResponse == "error"

\* The catch block of the callback: nothing is written.
Catch(c, why) ==
    /\ cb' = [cb EXCEPT ![c] = [@ EXCEPT !.pc = "done",
                                         !.result = CatchResponse,
                                         !.outcome = why]]
    /\ UNCHANGED store

\* The callback up to await axios.post of the token endpoint.
CbStart(c) ==
    /\ cb[c].pc = "idle"
    /\ cb' = [cb EXCEPT ![c] = [@ EXCEPT !.pc = "token"]]
    /\ UNCHANGED << store, poolVars, silent, rq, loop, weightedVars >>

\* The token endpoint answers; the profile is requested.
CbTokenOk(c, tok) ==
    /\ cb[c].pc = "token"
    /\ cb' = [cb EXCEPT ![c] = [@ EXCEPT !.pc = "profile", !.token = tok]]
    /\ UNCHANGED << store, poolVars, silent, rq, loop, weightedVars >>

\* The token exchange fails.
CbTokenFail(c) ==
    /\ cb[c].pc = "token"
    /\ Catch(c, "token_failed")
    /\ UNCHANGED << poolVars, silent, rq, loop, weightedVars >>

\* The profile arrives.  Without images, images[0] throws before the file is
\* written.  Otherwise users.json is read, changed and written with no await
\* in between, and the browser is redirected.
CbProfileOk(c, id, images) ==
    /\ cb[c].pc = "profile"
    /\ IF ~images
       THEN Catch(c, "profile_bad")
       ELSE /\ store' = SaveUser(store, id, cb[c].token)
            /\ cb' = [cb EXCEPT ![c] = [@ EXCEPT !.pc = "done", !.id = id,
                                                 !.result = "redirect",
                                                 !.outcome = "saved"]]
    /\ UNCHANGED << poolVars, silent, rq, loop, weightedVars >>

\* The profile fetch fails.
CbProfileFail(c) ==
    /\ cb[c].pc = "profile"
    /\ Catch(c, "profile_failed")
    /\ UNCHANGED << poolVars, silent, rq, loop, weightedVars >>

\* The browser comes back with another code: the handler runs anew.
CbAgain(c) ==
    /\ cb[c].pc = "done"
    /\ cb' = [cb EXCEPT ![c] = IdleCallback]
    /\ UNCHANGED << store, poolVars, silent, rq, loop, weightedVars >>

LoginInit ==
    /\ store \in Stores
    /\ cb = [c \in Callbacks |-> IdleCallback]
    /\ PoolOff /\ LiveOff /\ TwoOff /\ LoopOff /\ WeightedOff

LoginNext ==
    \/ \E c \in Callbacks : CbStart(c)
    \/ \E c \in Callbacks, tok \in Tokens : CbTokenOk(c, tok)
    \/ \E c \in Callbacks : CbTokenFail(c)
    \/ \E c \in Callbacks, id \in UserIdSet, images \in BOOLEAN : CbProfileOk(c, id, images)
    \/ \E c \in Callbacks : CbProfileFail(c)
    \/ \E c \in Callbacks : CbAgain(c)

SpecLogin == LoginInit /\ [][LoginNext]_vars

StoredIds(st) == [k \in 1..Len(st) |-> st[k].spotifyId]

\* Callback c writes users.json in this step.
Saves(c) == cb[c].pc = "profile" /\ cb'[c].outcome = "saved"

\* C17: whatever callbacks run and however they interleave, users.json has
\* at most one record per spotifyId; a callback for a new id adds exactly one
\* record, a callback for a stored id replaces that record's tokens and adds
\* none, and no step removes or changes the record of another id.
C17_OneRecordPerSpotifyId ==
    /\ [](NoRepeat(StoredIds(store)))
    /\ [][ /\ Len(store') >= Len(store)
           /\ \A k \in 1..Len(store) :
                 /\ store'[k].spotifyId = store[k].spotifyId
                 /\ store'[k] # store[k] =>
                       \E c \in Callbacks : Saves(c) /\ cb'[c].id = store[k].spotifyId
           /\ \A c \in Callbacks : Saves(c) =>
                 IF FindUser(store, cb'[c].id) = 0
                 THEN store' = Append(store, [spotifyId |-> cb'[c].id,
                                              accessToken |-> cb[c].token])
                 ELSE /\ Len(store') = Len(store)
                      /\ store'[FindUser(store, cb'[c].id)].accessToken = cb[c].token
         ]_vars

C17_Witness ==
    /\ cb["c1"].outcome = "saved" /\ cb["c2"].outcome = "saved"
    /\ cb["c1"].id = cb["c2"].id
    /\ cb["c1"].token # cb["c2"].token
    /\ Len(store) = 2
    /\ store[FindUser(store, cb["c1"].id)].accessToken \in Tokens

\* C19: when the token exchange or the profile fetch of a callback fails,
\* that step writes nothing to users.json (no record added, no token
\* replaced) and the callback ends in the error response, not the redirect.
C19_FailedCallbackWritesNothing ==
    [][ \A c \in Callbacks :
          (cb[c].pc \in {"token", "profile"}
             /\ cb'[c].outcome \in {"token_failed", "profile_failed", "profile_bad"})
          => (store' = store /\ cb'[c].pc = "done" /\ cb'[c].result = "error")
      ]_vars

C19_Witness ==
    /\ cb["c1"].outcome = "profile_failed"
    /\ cb["c1"].token \in Tokens
    /\ cb["c2"].outcome = "token_failed"
    /\ Len(store) = 2


\* ============================================ the round-robin loop, stepwise

MaxLoopLen == 2

\* The lists userTracks can hold when the loop starts: mapped tracks, each id
\* once (CombinedTracks), up to MaxLoopLen long.
LoopLists ==
    { s \in SeqsUpTo({ [id |-> i.id, uri |-> i.uri, weight |-> MediumWeight] :
                          i \in { r \in RawItems : r.artists } }, MaxLoopLen) :
        NoRepeat(s) }

\* userTracks when the loop starts: no user, one user or two, any list each.
LoopInputs ==
    { [k \in 1..Len(ks) |-> [key |-> ks[k], tracks |-> f[k]]] :
        ks \in { t \in SeqsUpTo(UserIdSet, Cardinality(UserIdSet)) : NoRepeat(t) },
        f \in [1..Cardinality(UserIdSet) -> LoopLists] }

\* Mutant of LoopBody: empty is not reset after a push.
LoopBodyKeepsEmpty(l) ==
    LET key == l.keys[l.k]
        tracks == Lookup(l.ut, key)
    IN  IF Len(tracks) > 0
        THEN [l EXCEPT !.ut = Assign(l.ut, key, Shift(tracks).rest),
                       !.final = Append(l.final, Shift(tracks).item),
                       !.k = l.k + 1]
        ELSE [l EXCEPT !.k = l.k + 1]

\* The body of the for-of loop for the key at position k.
LoopBody(l) ==
    LET key == l.keys[l.k]
        tracks == Lookup(l.ut, key)
    IN  IF Len(tracks) > 0
        THEN [l EXCEPT !.ut = Assign(l.ut, key, Shift(tracks).rest),
                       !.final = Append(l.final, Shift(tracks).item),
                       !.empty = FALSE,
                       !.k = l.k + 1]
        ELSE [l EXCEPT !.k = l.k + 1]

\* while (!empty) holds: empty = true, the for-of loop takes Object.keys.
LoopEnter ==
    /\ loop.pc = "while" /\ ~loop.empty
    /\ loop' = [loop EXCEPT !.empty = TRUE, !.keys = ObjectKeys(loop.ut),
                            !.k = 1, !.pc = "for"]
    /\ UNCHANGED << store, poolVars, silent, rq, cb, weightedVars >>

\* One iteration of the for-of loop.
LoopIterate ==
    /\ loop.pc = "for" /\ loop.k <= Len(loop.keys)
    /\ loop' = LoopBody(loop)
    /\ UNCHANGED << store, poolVars, silent, rq, cb, weightedVars >>

\* The keys are used up: back to the while test.
LoopForEnd ==
    /\ loop.pc = "for" /\ loop.k > Len(loop.keys)
    /\ loop' = [loop EXCEPT !.pc = "while"]
    /\ UNCHANGED << store, poolVars, silent, rq, cb, weightedVars >>

\* while (!empty) fails: the loop is left.
LoopExit ==
    /\ loop.pc = "while" /\ loop.empty
    /\ loop' = [loop EXCEPT !.pc = "done"]
    /\ UNCHANGED << store, poolVars, silent, rq, cb, weightedVars >>

LoopInit ==
    /\ store = <<>>
    /\ \E ut \in LoopInputs :
          loop = [in |-> ut, ut |-> ut, final |-> <<>>, keys |-> <<>>,
                  empty |-> FALSE, k |-> 0, pc |-> "while"]
    /\ PoolOff /\ LiveOff /\ TwoOff /\ LoginOff /\ WeightedOff

LoopNext == LoopEnter \/ LoopIterate \/ LoopForEnd \/ LoopExit

\* The handler runs its synchronous loop to the end once it is in it.
SpecLoop == LoopInit /\ [][LoopNext]_vars /\ WF_vars(LoopNext)

\* C18: from every userTracks (no user, empty lists, lists of any length up
\* to the bound) the loop reaches its exit and stays there, and then every
\* user's working list is empty.
C18_RoundRobinLoopTerminates ==
    <>[](/\ loop.pc = "done"
         /\ \A k \in 1..Len(loop.ut) : loop.ut[k].tracks = <<>>)

C18_Witness ==
    /\ loop.pc = "done"
    /\ Len(loop.in) = 2
    /\ loop.in[1].tracks = <<>>
    /\ Len(loop.in[2].tracks) = MaxLoopLen
    /\ Len(loop.final) = MaxLoopLen
    /\ \A k \in 1..Len(loop.ut) : loop.ut[k].tracks = <<>>


\* ================================================ two requests at a time

\* Two pool-build requests in progress at once.
Requests == {"r1", "r2"}

\* Bodies naming one stored user or both; the user sets may overlap.
TwoBodies ==
    { [present |-> TRUE, ids |-> s] : s \in {<<"7">>, <<"bob">>, <<"7", "bob">>} }

\* What a top-tracks request can be answered with.
TwoResults ==
    { << [id |-> "T1", uri |-> UriOf("T1"), artists |-> TRUE] >>,
      << [id |-> "T2", uri |-> UriOf("T2"), artists |-> TRUE],
         [id |-> "T1", uri |-> UriOf("T1"), artists |-> TRUE] >> }

\* The locals of one invocation of a handler, and the results it was given.
IdleHandler ==
    [variant |-> "none", body |-> [present |-> FALSE, ids |-> <<>>],
     pc |-> "idle", users |-> <<>>, idx |-> 0, mediumTracks |-> <<>>,
     userTracks |-> <<>>, allTracks |-> <<>>, response |-> NoResponse,
     log |-> <<>>]

\* Handler v up to its first await, over users.json = st.
HStart(v, b, st) ==
    LET h == [IdleHandler EXCEPT !.variant = v, !.body = b]
    IN  IF NoUserIds(b)
        THEN [h EXCEPT !.pc = "done",
                       !.response = ErrorResponse(400, "No valid users found")]
        ELSE IF Len(SelectUsers(st, b.ids)) = 0
             THEN [h EXCEPT !.pc = "done",
                            !.response = ErrorResponse(404, "No matching users found")]
             ELSE [h EXCEPT !.users = SelectUsers(st, b.ids), !.idx = 1,
                            !.pc = IF v = "rr" THEN "medium" ELSE "top"]

\* The handler after the loop turn of users[idx] has left ut and all: the
\* next turn, or the pool (the unique+shuffle pool still to be shuffled).
HNext(h, ut, all) ==
    IF h.idx < Len(h.users)
    THEN [h EXCEPT !.idx = h.idx + 1, !.userTracks = ut, !.allTracks = all,
                   !.pc = IF h.variant = "rr" THEN "medium" ELSE "top"]
    ELSE IF h.variant = "rr"
         THEN [h EXCEPT !.userTracks = RoundRobin(ut).ut,
                        !.response = PoolResponse(RoundRobin(ut).final),
                        !.pc = "done"]
         ELSE [h EXCEPT !.allTracks = all,
                        !.response = PoolResponse(UniqueTracks(all)),
                        !.pc = "shuffle"]

\* The handler from the await it is at, once that request has settled.
HStep(h, ok, items) ==
    LET g == [h EXCEPT !.log = Append(h.log, [ok |-> ok, items |-> items])]
        key == h.users[h.idx].spotifyId
        caught == ~ok \/ MapThrows(items)
    IN  CASE h.pc = "medium" ->
               IF caught THEN HNext(g, g.userTracks, g.allTracks)
               ELSE [g EXCEPT !.mediumTracks = MapWeighted(items, MediumWeight),
                              !.pc = "long"]
          [] h.pc = "long" ->
               IF caught THEN HNext(g, g.userTracks, g.allTracks)
               ELSE HNext(g, Assign(g.userTracks, key,
                                CombinedTracks(g.mediumTracks,
                                               MapWeighted(items, LongWeight))),
                          g.allTracks)
          [] OTHER ->
               IF caught THEN HNext(g, g.userTracks, g.allTracks)
               ELSE HNext(g, g.userTracks, g.allTracks \o MapTracks(items))

\* Mutant of Locals: userTracks and allTracks declared at module level, so
\* that every invocation works on the lists of the first one.
LocalsShared(q, r) ==
    [q[r] EXCEPT !.userTracks = q["r1"].userTracks,
                 !.allTracks = q["r1"].allTracks]

\* const userTracks = {} and let allTracks = [] are declared inside the
\* handler: an invocation reads and writes its own.
Locals(q, r) == q[r]

\* The request of r settles; the handler runs on to its next await or to
\* its response.
Settle(r, ok, items) ==
    LET h == HStep(Locals(rq, r), ok, items)
    IN  IF h.pc = "shuffle"
        THEN \E shuffledTracks \in Rearrangements(h.response.pool) :
                rq' = [rq EXCEPT ![r] = [h EXCEPT !.pc = "done",
                                         !.response = PoolResponse(shuffledTracks)]]
        ELSE rq' = [rq EXCEPT ![r] = h]

TwoStart(r, v, b) ==
    /\ rq[r].pc = "idle"
    /\ rq' = [rq EXCEPT ![r] = HStart(v, b, store)]
    /\ UNCHANGED << store, poolVars, silent, cb, loop, weightedVars >>

TwoFetchOk(r, items) ==
    /\ rq[r].pc \in {"medium", "long", "top"}
    /\ Settle(r, TRUE, items)
    /\ UNCHANGED << store, poolVars, silent, cb, loop, weightedVars >>

TwoFetchFail(r) ==
    /\ rq[r].pc \in {"medium", "long", "top"}
    /\ Settle(r, FALSE, <<>>)
    /\ UNCHANGED << store, poolVars, silent, cb, loop, weightedVars >>

\* The response is out; the client sends its next request.
TwoAgain(r) ==
    /\ rq[r].pc = "done"
    /\ rq' = [rq EXCEPT ![r] = IdleHandler]
    /\ UNCHANGED << store, poolVars, silent, cb, loop, weightedVars >>

TwoInit ==
    /\ store \in Stores
    /\ rq = [r \in Requests |-> IdleHandler]
    /\ PoolOff /\ LiveOff /\ LoginOff /\ LoopOff /\ WeightedOff

TwoNext ==
    \/ \E r \in Requests, v \in {"rr", "dedup"}, b \in TwoBodies : TwoStart(r, v, b)
    \/ \E r \in Requests, items \in TwoResults : TwoFetchOk(r, items)
    \/ \E r \in Requests : TwoFetchFail(r)
    \/ \E r \in Requests : TwoAgain(r)

SpecTwo == TwoInit /\ [][TwoNext]_vars

\* The handler run alone from h over the results of log.
RECURSIVE Replay(_, _)
Replay(h, log) ==
    IF log = <<>> THEN h
    ELSE Replay(HStep(h, Head(log).ok, Head(log).items), Tail(log))

Alone(h) == Replay(HStart(h.variant, h.body, store), h.log)

\* C14: whenever a request has answered with a pool, while the other request
\* was idle, in flight or done, that pool is the pool the same handler
\* yields when run alone over the request's own fetch results: the same
\* list for the round-robin handler, a rearrangement of the same list for the
\* unique+shuffle handler.
C14_ConcurrentRequestsAreIndependent ==
    \A r \in Requests :
        rq[r].response.kind = "pool" =>
            /\ Alone(rq[r]).response.kind = "pool"
            /\ rq[r].variant = "rr" =>
                  rq[r].response.pool = Alone(rq[r]).response.pool
            /\ rq[r].variant = "dedup" =>
                  rq[r].response.pool \in Rearrangements(Alone(rq[r]).response.pool)

C14_Witness ==
    /\ rq["r1"].variant = "rr" /\ rq["r1"].pc = "long" /\ rq["r1"].idx = 2
    /\ Len(rq["r1"].userTracks) = 1
    /\ rq["r2"].variant = "rr" /\ rq["r2"].response.kind = "pool"
    /\ Len(rq["r2"].users) = 2 /\ Len(rq["r2"].response.pool) = 3
    /\ rq["r1"].log # SubSeq(rq["r2"].log, 1, Len(rq["r1"].log))


\* ===================================== weighted aggregation and sequencing
\* aggregate and sequence as the specification states them (sections 4.3
\* and 4.4).  Weights are kept in tenths; finalWeight is the fraction
\* num / den.  For the weights and counts used here the fractions with a half
\* (3.5, 1.5, 2.5) are also what IEEE doubles give, and Math.round rounds
\* them up.

MaxWUsers == 7

\* Category weights { "frequent": 0.7, "recent": 0.3 } and the full weight
\* 1.0, in tenths; the expansion constant K.
FrequentWeight == 7
RecentWeight == 3
FullWeight == 10
K == 10

WTrack(id, w) == [id |-> id, sourceWeight |-> w]

\* Contributions a user can make: the two of the scenario, and one with a
\* full-weight track and an id given twice.
WListA == << WTrack("T1", FrequentWeight), WTrack("T2", FrequentWeight) >>
WListB == << WTrack("T1", RecentWeight), WTrack("T3", FrequentWeight) >>
WListC == << WTrack("T4", FullWeight), WTrack("T1", RecentWeight),
             WTrack("T1", FrequentWeight) >>

WLists == {WListA, WListB, WListC}

\* One contribution per participating user, in request order.
ContributionLists ==
    { [u \in 1..Len(s) |-> [userId |-> u, tracks |-> s[u]]] :
        s \in SeqsUpTo(WLists, MaxWUsers) }

\* Mutant of CountedOnce: every entry of the user's list is counted.
CountedEveryEntry(tracks) == tracks

\* The entries a user is counted for: each id of the list once.
CountedOnce(tracks) == KeepFrom(tracks, 1)

\* popularityCount of id after the contributions from position u on.
RECURSIVE PopularityFrom(_, _, _)
PopularityFrom(contributions, u, id) ==
    IF u > Len(contributions) THEN 0
    ELSE Len(SelectSeq(CountedOnce(contributions[u].tracks),
                       LAMBDA t : t.id = id))
         + PopularityFrom(contributions, u + 1, id)

\* All users' tracks in contribution order.
RECURSIVE Merged(_, _)
Merged(contributions, u) ==
    IF u > Len(contributions) THEN <<>>
    ELSE contributions[u].tracks \o Merged(contributions, u + 1)

\* aggregate(contributions): the first-seen track of every id, with its
\* popularityCount and finalWeight = sourceWeight / popularityCount.
Aggregate(contributions) ==
    LET surviving == KeepFrom(Merged(contributions, 1), 1)
    IN  [k \in 1..Len(surviving) |->
            LET count == PopularityFrom(contributions, 1, surviving[k].id)
            IN  [id |-> surviving[k].id,
                 sourceWeight |-> surviving[k].sourceWeight,
                 popularityCount |-> count,
                 finalWeight |-> [num |-> surviving[k].sourceWeight,
                                  den |-> 10 * count]]]

\* Mutant of Round: the fraction is cut off.
RoundDown(num, den) == num \div den

\* Math.round(num / den): the nearest integer, a half rounded up.
Round(num, den) == (2 * num + den) \div (2 * den)

\* round(finalWeight * K)
Replicas(t) == Round(t.finalWeight.num * K, t.finalWeight.den)

RECURSIVE Repeat(_, _)
Repeat(x, n) == IF n <= 0 THEN <<>> ELSE <<x>> \o Repeat(x, n - 1)

\* Expansion: the working multiset, every track replicated.
RECURSIVE Expand(_, _)
Expand(weightedTracks, k) ==
    IF k > Len(weightedTracks) THEN <<>>
    ELSE Repeat(weightedTracks[k].id, Replicas(weightedTracks[k]))
         \o Expand(weightedTracks, k + 1)

\* sequence before its shuffle: expansion when more than one user
\* contributed, else the user's own list.
Sequenced(contributions, weightedTracks) ==
    IF Len(contributions) > 1
    THEN Expand(weightedTracks, 1)
    ELSE [k \in 1..Len(Merged(contributions, 1)) |-> Merged(contributions, 1)[k].id]

\* aggregate is applied to the collected contributions.
WAggregate ==
    /\ wPc = "collected"
    /\ wTracks' = Aggregate(wContribs)
    /\ wPc' = "aggregated"
    /\ UNCHANGED << store, poolVars, silent, rq, cb, loop, wContribs, wPool >>

\* sequence builds the working multiset (its shuffle then only moves the
\* slots).
WSequence ==
    /\ wPc = "aggregated"
    /\ wPool' = Sequenced(wContribs, wTracks)
    /\ wPc' = "sequenced"
    /\ UNCHANGED << store, poolVars, silent, rq, cb, loop, wContribs, wTracks >>

WeightedInit ==
    /\ store = <<>>
    /\ wContribs \in ContributionLists
    /\ wTracks = <<>> /\ wPool = <<>>
    /\ wPc = "collected"
    /\ PoolOff /\ LiveOff /\ TwoOff /\ LoginOff /\ LoopOff

WeightedNext == WAggregate \/ WSequence

SpecWeighted == WeightedInit /\ [][WeightedNext]_vars


\* The users whose contribution contains id.
UsersWith(id) ==
    { u \in 1..Len(wContribs) :
        \E j \in 1..Len(wContribs[u].tracks) : wContribs[u].tracks[j].id = id }

\* The sourceWeight id has where it is seen first: the first user that has
\* it, the first entry of that user's list.
FirstSeenWeight(id) ==
    LET u == CHOOSE v \in UsersWith(id) : \A x \in UsersWith(id) : v <= x
        ts == wContribs[u].tracks
        j == CHOOSE i \in 1..Len(ts) :
                ts[i].id = id /\ \A x \in 1..(i - 1) : ts[x].id # id
    IN  ts[j].sourceWeight

\* C11: after aggregation every contributed id survives exactly once; its
\* popularityCount is the number of distinct users whose list contains the
\* id, however often a list contains it, and is at least 1; its finalWeight
\* is the first-seen sourceWeight (tenths) divided by popularityCount.
C11_PopularityCountsDistinctUsers ==
    wPc # "collected" =>
        /\ \A k \in 1..Len(wTracks) :
              /\ wTracks[k].popularityCount = Cardinality(UsersWith(wTracks[k].id))
              /\ wTracks[k].popularityCount >= 1
              /\ wTracks[k].finalWeight.num * 10 * Cardinality(UsersWith(wTracks[k].id))
                    = FirstSeenWeight(wTracks[k].id) * wTracks[k].finalWeight.den
        /\ \A u \in 1..Len(wContribs) : \A j \in 1..Len(wContribs[u].tracks) :
              Cardinality({ k \in 1..Len(wTracks) :
                              wTracks[k].id = wContribs[u].tracks[j].id }) = 1

C11_Witness ==
    /\ wPc = "aggregated"
    /\ Len(wContribs) = 3
    /\ wContribs[1].tracks = WListB
    /\ wContribs[2].tracks = WListC
    /\ wContribs[3].tracks = WListA
    /\ \E k \in 1..Len(wTracks) :
          /\ wTracks[k].id = "T1" /\ wTracks[k].popularityCount = 3
          /\ wTracks[k].finalWeight = [num |-> RecentWeight, den |-> 30]

\* The slots of the working multiset that hold id.
Copies(id) == Cardinality({ k \in 1..Len(wPool) : wPool[k] = id })

\* C12: with more than one contributing user, a track has c slots in the
\* working multiset where c is finalWeight * K rounded to the nearest
\* integer (c - 1/2 <= finalWeight * K < c + 1/2): 10 slots for finalWeight
\* 1.0, none when finalWeight * K is below a half, every slot holds a
\* weighted track, and the contributions A = [T1(0.7), T2(0.7)],
\* B = [T1(0.3), T3(0.7)] give T1 4 slots, T2 7, T3 7, 18 in total.
C12_ExpansionCounts ==
    (wPc = "sequenced" /\ Len(wContribs) > 1) =>
        /\ \A k \in 1..Len(wTracks) :
              LET num == wTracks[k].finalWeight.num
                  den == wTracks[k].finalWeight.den
                  c == Copies(wTracks[k].id)
              IN  /\ den * (2 * c - 1) <= 2 * num * K
                  /\ 2 * num * K < den * (2 * c + 1)
                  /\ (num = den /\ K = 10) => c = 10
                  /\ 2 * num * K < den => c = 0
        /\ \A s \in 1..Len(wPool) : \E k \in 1..Len(wTracks) : wTracks[k].id = wPool[s]
        /\ (K = 10 /\ Len(wContribs) = 2 /\ wContribs[1].tracks = WListA
              /\ wContribs[2].tracks = WListB) =>
                 /\ Copies("T1") = 4 /\ Copies("T2") = 7 /\ Copies("T3") = 7
                 /\ Len(wPool) = 18

C12_Witness ==
    /\ wPc = "sequenced"
    /\ Len(wContribs) = 2
    /\ wContribs[1].tracks = WListA /\ wContribs[2].tracks = WListB
    /\ Len(wPool) = 18 /\ Copies("T1") = 4

\* Reachable cases of C12: a track of finalWeight 1.0 with its 10 slots, and
\* a track dropped because its count rounds to 0.
C12_FullAndDroppedOccur ==
    /\ wPc = "sequenced"
    /\ \E k \in 1..Len(wTracks) :
          /\ wTracks[k].finalWeight.num = wTracks[k].finalWeight.den
          /\ Copies(wTracks[k].id) = 10
    /\ \E k \in 1..Len(wTracks) : Copies(wTracks[k].id) = 0

====
